---------------------------- MODULE Spec2Model ----------------------------
(***************************************************************************)
(* VM Manager (Flask + SQLAlchemy): users, virtual machines, the           *)
(* many-to-many ownership relation user_vm, session based authentication   *)
(* and the request handlers of src/app.py (UI) and src/routes/api.py       *)
(* (JSON API).                                                             *)
(*                                                                         *)
(* One action per request handler.  A handler runs from the arrival of     *)
(* the request to its response; a handler that answers without reaching    *)
(* db.session.commit() leaves the tables as they were (the request's       *)
(* session is discarded with its pending changes).                         *)
(*                                                                         *)
(* Strings are sequences of one-character strings, so that strip() and     *)
(* lower() are computed and not assumed.                                   *)
(***************************************************************************)
EXTENDS Integers, Sequences, FiniteSets, TLC

VARIABLES
    users,      \* table users: sequence of rows, row i has id i
    vms,        \* table vm: sequence of rows, row i has id i
    user_vm,    \* association table: set of <<user_id, vm_id>>
    sessions,   \* ids of the users that hold an authenticated session cookie
    resp,       \* the response to the last request
    inflight    \* the requests between their first read and their response

vars == <<users, vms, user_vm, sessions, resp, inflight>>

---------------------------------------------------------------------------
(* Bounds of the model *)

\* at most this many rows in table users
MaxUsers == 2

\* at most this many rows in table vm
MaxVms == 1

\* at most this many requests in flight at a time
MaxInflight == 2

---------------------------------------------------------------------------
(* Strings *)

\* Python's None, and a form/JSON field that is absent
None == << "None" >>

\* the upper-case letters that occur in the inputs
LowerChar(ch) ==
    CASE ch = "A" -> "a"
      [] ch = "B" -> "b"
      [] ch = "C" -> "c"
      [] ch = "T" -> "t"
      [] OTHER -> ch

\* str.lower()
Lower(s) == [i \in 1..Len(s) |-> LowerChar(s[i])]

IsSpace(ch) == ch = " "

RECURSIVE LStrip(_)
LStrip(s) == IF s # <<>> /\ IsSpace(Head(s)) THEN LStrip(Tail(s)) ELSE s

RECURSIVE RStrip(_)
RStrip(s) ==
    IF s # <<>> /\ IsSpace(s[Len(s)]) THEN RStrip(SubSeq(s, 1, Len(s) - 1)) ELSE s

\* str.strip()
Strip(s) == RStrip(LStrip(s))

\* (value or '')
OrEmpty(s) == IF s = None THEN <<>> ELSE s

\* a raw form/JSON value handed to int(): an integer literal, or anything
\* on which int() raises TypeError/ValueError (absent, empty, not a number)
RawInt(n) == [isint |-> TRUE, val |-> n]
NotInt == [isint |-> FALSE, val |-> 0]

---------------------------------------------------------------------------
(* Inputs of the requests *)

AdminEmail == << "a","d","m","i","n","@","e","x","a","m","p","l","e",".","c","o","m" >>
AdminPassword == << "a","d","m","i","n","1","2","3","4","5" >>

\* strings of the requests
EmailA == << "A","@","b",".","c","c" >>
EmailC == << "c","@","b" >>
Secret == << "s","e","c","r","e","t" >>
Short == << "a","b","c" >>
NameN == << "n" >>
Blank == << " " >>

BoolInputs == { None, << " ","T","r","u","e" >>, << "0" >> }

Methods == { "GET", "POST" }

\* the fields name, ram_gb, cpu of the create and edit forms and of POST /vms
VmForm(name, ram_gb, cpu) == [name |-> name, ram_gb |-> ram_gb, cpu |-> cpu]

VmForms ==
    { VmForm(<< "a" >>, RawInt(0), RawInt(1)),
      VmForm(<< " ","b" >>, RawInt(32), RawInt(16)),
      VmForm(Blank, RawInt(0), RawInt(1)),
      VmForm(None, RawInt(0), RawInt(1)),
      VmForm(None, RawInt(33), RawInt(1)),
      VmForm(<< "a" >>, RawInt(33), RawInt(1)),
      VmForm(<< "a" >>, RawInt(-1), RawInt(1)),
      VmForm(<< "a" >>, RawInt(0), RawInt(0)),
      VmForm(<< "a" >>, RawInt(0), RawInt(17)),
      VmForm(<< "a" >>, NotInt, RawInt(1)),
      VmForm(<< "a" >>, RawInt(0), NotInt) }

---------------------------------------------------------------------------
(* Entities *)

\* models/user.py: Users
User(email, full_name, password_hash, is_admin, is_blocked) ==
    [email |-> email, full_name |-> full_name, password_hash |-> password_hash,
     is_admin |-> is_admin, is_blocked |-> is_blocked]

\* models/vm.py: VM
Vm(name, ram_gb, cpu, is_deleted) ==
    [name |-> name, ram_gb |-> ram_gb, cpu |-> cpu, is_deleted |-> is_deleted]

\* generate_password_hash: a salted hash, injective on the passwords used
generate_password_hash(password) == << "#" >> \o password

check_password(u, password) == users[u].password_hash = generate_password_hash(password)

UserIds == 1..Len(users)
VmIds == 1..Len(vms)

\* Users.query.filter_by(email=email).first(): the id, or 0
UserByEmail(email) ==
    IF \E u \in UserIds : users[u].email = email
    THEN CHOOSE u \in UserIds : users[u].email = email /\
                                \A w \in UserIds : users[w].email = email => u <= w
    ELSE 0

\* current_user.vms: ids of the VMs linked to the user
OwnedVmIds(u) == { v \in VmIds : <<u, v>> \in user_vm }

\* ids of a set in ascending order
RECURSIVE SortedIds(_)
SortedIds(S) ==
    IF S = {} THEN <<>>
    ELSE LET m == CHOOSE x \in S : \A y \in S : x <= y
         IN << m >> \o SortedIds(S \ {m})

vm_to_dict(v) ==
    [id |-> v, name |-> vms[v].name, ram_gb |-> vms[v].ram_gb,
     cpu |-> vms[v].cpu, is_deleted |-> vms[v].is_deleted]

user_to_dict(u) ==
    [id |-> u, email |-> users[u].email, full_name |-> users[u].full_name,
     is_admin |-> users[u].is_admin, is_blocked |-> users[u].is_blocked]

VmDicts(S) == LET ids == SortedIds(S) IN [i \in 1..Len(ids) |-> vm_to_dict(ids[i])]
UserDicts(S) == LET ids == SortedIds(S) IN [i \in 1..Len(ids) |-> user_to_dict(ids[i])]

parse_bool(val) ==
    IF val = None THEN FALSE
    ELSE Lower(Strip(val)) \in
            { << "1" >>, << "t","r","u","e" >>, << "y","e","s" >>, << "y" >>, << "o","n" >> }

---------------------------------------------------------------------------
(* Responses *)

\* op: the handler; actor: current_user's id, 0 when anonymous; target: the
\* id in the path, 0 when none; status: the HTTP status; msgs: the error list
\* of a JSON error body, or the flashed messages and form errors of a page;
\* body: the dicts of the JSON body, or the rows handed to the template;
\* count: the number a flashed message reports
Response(op, actor, target, status, msgs, body, count) ==
    [op |-> op, actor |-> actor, target |-> target, status |-> status,
     msgs |-> msgs, body |-> body, count |-> count]

\* the handler answers; the requests in flight are not touched
Respond(op, actor, target, status, msgs, body) ==
    /\ resp' = Response(op, actor, target, status, msgs, body, 0)
    /\ inflight' = inflight

\* a request in flight: the handler and its actor, the id it names, the row
\* as its session loaded it, the row with the handler's attribute writes,
\* the errors it has collected, the ids of its bulk statement
Request(op, actor, target, loaded, pending, errors, ids) ==
    [op |-> op, actor |-> actor, target |-> target, loaded |-> loaded,
     pending |-> pending, errors |-> errors, ids |-> ids]

\* a worker that handles no request
Idle == Request("idle", 0, 0, <<>>, <<>>, <<>>, {})

Slots == 1..MaxInflight

NoneInflight == [s \in Slots |-> Idle]

\* the handler answers and commits nothing
NoCommit == UNCHANGED <<users, vms, user_vm, sessions>>

\* abort(403)
Forbidden(op, a, t) == Respond(op, a, t, 403, <<>>, <<>>) /\ NoCommit

\* get_or_404
NotFound(op, a, t) == Respond(op, a, t, 404, <<>>, <<>>) /\ NoCommit

is_admin(a) == users[a].is_admin

\* a soft-delete flag that is never seen as set
VmIsDeleted_never(vm_id) == FALSE

\* vm.is_deleted as the update, edit and delete handlers read it
VmIsDeleted(vm_id) == vms[vm_id].is_deleted

\* a login that does not look at the block flag
is_blocked_ignored(u) == FALSE

\* u.is_blocked as the login handler reads it
is_blocked(u) == users[u].is_blocked

\* a block handler that does not protect administrators
TargetIsAdmin_unchecked(user_id) == FALSE

\* the target of a block request is an administrator
TargetIsAdmin(user_id) == users[user_id].is_admin


---------------------------------------------------------------------------
(* JSON API: VMs (routes/api.py) *)

\* an all flag that is honoured for every actor
ListAll_any_actor(a, all_flag) == all_flag

\* current_user.is_admin and all_flag
ListAll(a, all_flag) == is_admin(a) /\ all_flag

\* GET /api/v1/vms
api_list_vms(a, include_deleted_arg, all_arg) ==
    LET include_deleted == parse_bool(include_deleted_arg)
        all_flag == parse_bool(all_arg)
        vms_all == IF ListAll(a, all_flag) THEN VmIds ELSE OwnedVmIds(a)
        shown == IF ~ListAll(a, all_flag) /\ ~include_deleted
                 THEN { v \in vms_all : ~vms[v].is_deleted }
                 ELSE vms_all
    IN /\ a \in sessions
       /\ Respond("api_list_vms", a, 0, 200, <<>>, VmDicts(shown))
       /\ NoCommit

\* the range checks of a VM's fields
RamInRange(ram_gb) == 0 <= ram_gb /\ ram_gb <= 32
CpuInRange(cpu) == 1 <= cpu /\ cpu <= 16

\* POST /api/v1/vms; owner_id = 0 stands for no owner_id in the body
api_create_vm(a, name_arg, ram_arg, cpu_arg, owner_id) ==
    LET name == Strip(OrEmpty(name_arg))
        errors == (IF name = <<>> THEN << "Name is required" >> ELSE <<>>)
               \o (IF ~RamInRange(ram_arg.val) THEN << "RAM from 0 to 32" >> ELSE <<>>)
               \o (IF ~CpuInRange(cpu_arg.val) THEN << "CPU from 1 to 16" >> ELSE <<>>)
        owner == IF is_admin(a) /\ owner_id # 0 THEN owner_id ELSE a
        vm_id == Len(vms) + 1
    IN /\ a \in sessions
       /\ IF ~ram_arg.isint \/ ~cpu_arg.isint
          THEN Respond("api_create_vm", a, 0, 400,
                       << "ram_gb and cpu must be integers" >>, <<>>) /\ NoCommit
          ELSE IF errors # <<>>
          THEN Respond("api_create_vm", a, 0, 400, errors, <<>>) /\ NoCommit
          ELSE IF owner \notin UserIds
          THEN Respond("api_create_vm", a, 0, 400, << "Owner not found" >>, <<>>) /\ NoCommit
          ELSE /\ vms' = Append(vms, Vm(name, ram_arg.val, cpu_arg.val, FALSE))
               /\ user_vm' = user_vm \cup { <<owner, vm_id>> }
               /\ Respond("api_create_vm", a, vm_id, 201, <<>>,
                          << [id |-> vm_id, name |-> name, ram_gb |-> ram_arg.val,
                              cpu |-> cpu_arg.val, is_deleted |-> FALSE] >>)
               /\ UNCHANGED <<users, sessions>>

\* a gate that lets every authenticated actor through
ApiVmPermitted_open(a, vm_id) == TRUE

\* the gate of the API's VM handlers
ApiVmPermitted(a, vm_id) == is_admin(a) \/ vm_id \in OwnedVmIds(a)

\* GET /api/v1/vms/<vm_id>
api_get_vm(a, vm_id) ==
    /\ a \in sessions
    /\ IF vm_id \notin VmIds THEN NotFound("api_get_vm", a, vm_id)
       ELSE IF ~ApiVmPermitted(a, vm_id) THEN Forbidden("api_get_vm", a, vm_id)
       ELSE Respond("api_get_vm", a, vm_id, 200, <<>>, << vm_to_dict(vm_id) >>) /\ NoCommit

\* PATCH /api/v1/vms/<vm_id>; a field that is not in the body is Absent
Absent == [present |-> FALSE]
Field(x) == [present |-> TRUE, val |-> x]

api_update_vm(a, vm_id, name_f, ram_f, cpu_f) ==
    LET vm == vms[vm_id]
        name == IF name_f.present THEN Strip(OrEmpty(name_f.val)) ELSE <<>>
        e_name == IF name_f.present /\ name = <<>>
                  THEN << "Name must not be empty" >> ELSE <<>>
        e_ram == IF ~ram_f.present THEN <<>>
                 ELSE IF ~ram_f.val.isint THEN << "ram_gb must be an integer" >>
                 ELSE IF ~RamInRange(ram_f.val.val) THEN << "RAM from 0 to 32" >>
                 ELSE <<>>
        e_cpu == IF ~cpu_f.present THEN <<>>
                 ELSE IF ~cpu_f.val.isint THEN << "cpu must be an integer" >>
                 ELSE IF ~CpuInRange(cpu_f.val.val) THEN << "CPU from 1 to 16" >>
                 ELSE <<>>
        errors == e_name \o e_ram \o e_cpu
        updated == [vm EXCEPT !.name = IF name_f.present THEN name ELSE @,
                              !.ram_gb = IF ram_f.present THEN ram_f.val.val ELSE @,
                              !.cpu = IF cpu_f.present THEN cpu_f.val.val ELSE @]
    IN /\ a \in sessions
       /\ IF vm_id \notin VmIds THEN NotFound("api_update_vm", a, vm_id)
          ELSE IF ~ApiVmPermitted(a, vm_id) THEN Forbidden("api_update_vm", a, vm_id)
          ELSE IF VmIsDeleted(vm_id)
          THEN Respond("api_update_vm", a, vm_id, 400,
                       << "A deleted VM cannot be edited" >>, <<>>) /\ NoCommit
          ELSE IF errors # <<>>
          THEN Respond("api_update_vm", a, vm_id, 400, errors, <<>>) /\ NoCommit
          ELSE /\ vms' = [vms EXCEPT ![vm_id] = updated]
               /\ Respond("api_update_vm", a, vm_id, 200, <<>>,
                          << [id |-> vm_id, name |-> updated.name, ram_gb |-> updated.ram_gb,
                              cpu |-> updated.cpu, is_deleted |-> updated.is_deleted] >>)
               /\ UNCHANGED <<users, user_vm, sessions>>

\* DELETE /api/v1/vms/<vm_id>
api_delete_vm(a, vm_id) ==
    /\ a \in sessions
    /\ IF vm_id \notin VmIds THEN NotFound("api_delete_vm", a, vm_id)
       ELSE IF ~ApiVmPermitted(a, vm_id) THEN Forbidden("api_delete_vm", a, vm_id)
       ELSE /\ vms' = IF ~VmIsDeleted(vm_id)
                      THEN [vms EXCEPT ![vm_id].is_deleted = TRUE]
                      ELSE vms
            /\ Respond("api_delete_vm", a, vm_id, 204, <<>>, <<>>)
            /\ UNCHANGED <<users, user_vm, sessions>>

---------------------------------------------------------------------------
(* UI: VMs (app.py) *)

\* an unhandled exception in a handler: 500, nothing committed
ServerError(op, a, t) == Respond(op, a, t, 500, <<>>, <<>>) /\ NoCommit

\* a listing that forgets the soft-delete filter
vms_page_unfiltered(a) ==
    /\ a \in sessions
    /\ Respond("vms", a, 0, 200, <<>>, VmDicts(OwnedVmIds(a)))
    /\ NoCommit

\* GET /vms
vms_page(a) ==
    /\ a \in sessions
    /\ Respond("vms", a, 0, 200, <<>>,
               VmDicts({ v \in OwnedVmIds(a) : ~vms[v].is_deleted }))
    /\ NoCommit

\* GET/POST /vms/create
vm_create(a, method, name_arg, ram_arg, cpu_arg) ==
    LET name == Strip(name_arg)
        errors == (IF ~RamInRange(ram_arg.val) THEN << "RAM from 0 to 32" >> ELSE <<>>)
               \o (IF ~CpuInRange(cpu_arg.val) THEN << "CPU from 1 to 16" >> ELSE <<>>)
        vm_id == Len(vms) + 1
    IN /\ a \in sessions
       /\ IF method = "GET"
          THEN Respond("vm_create", a, 0, 200, <<>>, <<>>) /\ NoCommit
          ELSE IF name_arg = None
          THEN ServerError("vm_create", a, 0)
          ELSE IF ~ram_arg.isint \/ ~cpu_arg.isint
          THEN Respond("vm_create", a, 0, 200,
                       << "RAM and CPU must be numbers" >>, <<>>) /\ NoCommit
          ELSE IF errors # <<>>
          THEN Respond("vm_create", a, 0, 200, errors, <<>>) /\ NoCommit
          ELSE /\ vms' = Append(vms, Vm(name, ram_arg.val, cpu_arg.val, FALSE))
               /\ user_vm' = user_vm \cup { <<a, vm_id>> }
               /\ Respond("vm_create", a, vm_id, 302, << "VM created" >>, <<>>)
               /\ UNCHANGED <<users, sessions>>

\* {int(x) for x in ids}
IdSet(ids_arg) == { ids_arg[i].val : i \in 1..Len(ids_arg) }

\* POST /vms/delete; ids_arg is the list of the form's vm_ids
vms_delete(a, ids_arg) ==
    LET ids == IdSet(ids_arg)
        owned_vm_ids == OwnedVmIds(a)
        target_ids == { vid \in ids : vid \in owned_vm_ids }
    IN /\ a \in sessions
       /\ IF \E i \in 1..Len(ids_arg) : ~ids_arg[i].isint
          THEN Respond("vms_delete", a, 0, 302, << "Malformed VM ids" >>, <<>>) /\ NoCommit
          ELSE IF ids = {}
          THEN Respond("vms_delete", a, 0, 302, << "No VM selected" >>, <<>>) /\ NoCommit
          ELSE IF target_ids = {}
          THEN Respond("vms_delete", a, 0, 302,
                       << "No VM available for deletion" >>, <<>>) /\ NoCommit
          ELSE /\ vms' = [v \in VmIds |->
                             IF v \in target_ids THEN [vms[v] EXCEPT !.is_deleted = TRUE]
                             ELSE vms[v]]
               /\ resp' = Response("vms_delete", a, 0, 302, << "Marked as deleted" >>,
                                   <<>>, Cardinality(target_ids))
               /\ UNCHANGED <<users, user_vm, sessions, inflight>>

\* the gate of the UI's edit form
UiVmPermitted(a, vm_id) == vm_id \in OwnedVmIds(a)

\* GET/POST /vms/<vm_id>/edit
vm_edit(a, vm_id, method, name_arg, ram_arg, cpu_arg) ==
    LET vm == vms[vm_id]
        name == Strip(OrEmpty(name_arg))
        errors == (IF ~ram_arg.isint \/ ~cpu_arg.isint
                   THEN << "RAM and CPU must be numbers" >>
                   ELSE (IF ~RamInRange(ram_arg.val) THEN << "RAM from 0 to 32" >> ELSE <<>>)
                     \o (IF ~CpuInRange(cpu_arg.val) THEN << "CPU from 1 to 16" >> ELSE <<>>))
               \o (IF name = <<>> THEN << "Name is required" >> ELSE <<>>)
    IN /\ a \in sessions
       /\ IF vm_id \notin VmIds THEN NotFound("vm_edit", a, vm_id)
          ELSE IF ~UiVmPermitted(a, vm_id) THEN Forbidden("vm_edit", a, vm_id)
          ELSE IF VmIsDeleted(vm_id)
          THEN Respond("vm_edit", a, vm_id, 302,
                       << "A deleted VM cannot be edited" >>, <<>>) /\ NoCommit
          ELSE IF method = "GET"
          THEN Respond("vm_edit", a, vm_id, 200, <<>>, << vm_to_dict(vm_id) >>) /\ NoCommit
          ELSE IF errors # <<>>
          THEN Respond("vm_edit", a, vm_id, 200, errors, << vm_to_dict(vm_id) >>) /\ NoCommit
          ELSE /\ vms' = [vms EXCEPT ![vm_id] =
                             [vm EXCEPT !.name = name, !.ram_gb = ram_arg.val,
                                        !.cpu = cpu_arg.val]]
               /\ Respond("vm_edit", a, vm_id, 302, << "VM updated" >>, <<>>)
               /\ UNCHANGED <<users, user_vm, sessions>>

\* a gate that asks for a session only
AdminGate_session_only(a) == a \in sessions

\* @admin_required / require_admin()
AdminGate(a) == a \in sessions /\ is_admin(a)

\* GET /admin/vms
admin_vms(a) ==
    /\ a \in sessions
    /\ IF ~AdminGate(a) THEN Forbidden("admin_vms", a, 0)
       ELSE Respond("admin_vms", a, 0, 200, <<>>, VmDicts(VmIds)) /\ NoCommit

---------------------------------------------------------------------------
(* Authentication and profile (app.py) *)

\* db.session.add(Users(...)); the new row's id
NewUserId == Len(users) + 1

\* GET/POST /register; a = 0 is an anonymous client
register(a, method, full_name_arg, email_arg, password_arg) ==
    LET email == Lower(email_arg)
    IN /\ a \in sessions \cup {0}
       /\ IF a # 0
          THEN Respond("register", a, 0, 302, <<>>, <<>>) /\ NoCommit
          ELSE IF method = "GET"
          THEN Respond("register", a, 0, 200, <<>>, <<>>) /\ NoCommit
          ELSE IF email_arg = None
          THEN ServerError("register", a, 0)
          ELSE IF UserByEmail(email) # 0
          THEN Respond("register", a, 0, 200,
                       << "A user with this email already exists" >>, <<>>) /\ NoCommit
          ELSE IF password_arg = None
          THEN ServerError("register", a, 0)
          ELSE /\ users' = Append(users, User(email, full_name_arg,
                                  generate_password_hash(password_arg), FALSE, FALSE))
               /\ sessions' = sessions \cup { NewUserId }
               /\ Respond("register", a, NewUserId, 302, <<>>, <<>>)
               /\ UNCHANGED <<vms, user_vm>>

\* GET/POST /login
login(a, method, email_arg, password_arg) ==
    LET u == UserByEmail(Lower(email_arg))
    IN /\ a \in sessions \cup {0}
       /\ IF a # 0
          THEN Respond("login", a, 0, 302, <<>>, <<>>) /\ NoCommit
          ELSE IF method = "GET"
          THEN Respond("login", a, 0, 200, <<>>, <<>>) /\ NoCommit
          ELSE IF email_arg = None
          THEN ServerError("login", a, 0)
          ELSE IF u = 0
          THEN Respond("login", a, 0, 200, << "Wrong email or password" >>, <<>>) /\ NoCommit
          ELSE IF password_arg = None
          THEN ServerError("login", a, u)
          ELSE IF ~check_password(u, password_arg)
          THEN Respond("login", a, u, 200, << "Wrong email or password" >>, <<>>) /\ NoCommit
          ELSE IF is_blocked(u)
          THEN Respond("login", a, u, 200, << "Your account is blocked" >>, <<>>) /\ NoCommit
          ELSE /\ sessions' = sessions \cup { u }
               /\ Respond("login", a, u, 302, <<>>, <<>>)
               /\ UNCHANGED <<users, vms, user_vm>>

\* GET /logout
logout(a) ==
    /\ a \in sessions
    /\ sessions' = sessions \ { a }
    /\ Respond("logout", a, 0, 302, <<>>, <<>>)
    /\ UNCHANGED <<users, vms, user_vm>>

\* Users.query.filter(Users.email == email, Users.id != current_user.id).first()
EmailTakenByOther(a, email) == \E u \in UserIds : u # a /\ users[u].email = email

\* GET/POST /profile
profile(a, method, full_name_arg, email_arg) ==
    LET email == Lower(email_arg)
    IN /\ a \in sessions
       /\ IF method = "GET"
          THEN Respond("profile", a, 0, 200, <<>>, << user_to_dict(a) >>) /\ NoCommit
          ELSE IF email_arg = None
          THEN ServerError("profile", a, 0)
          ELSE IF EmailTakenByOther(a, email)
          THEN Respond("profile", a, 0, 200,
                       << "Email is already used by another user" >>,
                       << user_to_dict(a) >>) /\ NoCommit
          ELSE /\ users' = [users EXCEPT ![a].full_name = full_name_arg,
                                         ![a].email = email]
               /\ Respond("profile", a, 0, 302, << "Profile updated" >>, <<>>)
               /\ UNCHANGED <<vms, user_vm, sessions>>

\* @login_required answering an anonymous client, whatever the protected
\* endpoint: redirect to the login view, the handler is not entered
login_required ==
    /\ Respond("login_required", 0, 0, 302, << "Please log in to access this page." >>, <<>>)
    /\ NoCommit

---------------------------------------------------------------------------
(* Administration (app.py) *)

\* GET /admin/users
admin_users(a) ==
    /\ a \in sessions
    /\ IF ~AdminGate(a) THEN Forbidden("admin_users", a, 0)
       ELSE Respond("admin_users", a, 0, 200, <<>>, UserDicts(UserIds)) /\ NoCommit

\* POST /admin/users/<user_id>/toggle-block
admin_toggle_block(a, user_id) ==
    /\ a \in sessions
    /\ IF ~AdminGate(a) THEN Forbidden("admin_toggle_block", a, user_id)
       ELSE IF user_id \notin UserIds THEN NotFound("admin_toggle_block", a, user_id)
       ELSE IF TargetIsAdmin(user_id)
       THEN Respond("admin_toggle_block", a, user_id, 302,
                    << "An administrator cannot be blocked" >>, <<>>) /\ NoCommit
       ELSE /\ users' = [users EXCEPT ![user_id].is_blocked = ~@]
            /\ Respond("admin_toggle_block", a, user_id, 302,
                       << IF users[user_id].is_blocked THEN "Unblocked" ELSE "Blocked" >>, <<>>)
            /\ UNCHANGED <<vms, user_vm, sessions>>

\* flask ensure-admin (CLI command, no HTTP actor)
ensure_admin ==
    LET admin_email == Lower(AdminEmail)
        user == UserByEmail(admin_email)
    IN /\ IF user = 0
          THEN users' = Append(users, User(admin_email,
                                           << "A","d","m","i","n","i","s","t","r","a","t","o","r" >>,
                                           generate_password_hash(AdminPassword), TRUE, FALSE))
          ELSE users' = [users EXCEPT ![user].is_admin = TRUE,
                                      ![user].is_blocked = FALSE,
                                      ![user].password_hash =
                                          generate_password_hash(AdminPassword)]
       /\ Respond("ensure_admin", 0, IF user = 0 THEN NewUserId ELSE user, 0, <<>>, <<>>)
       /\ UNCHANGED <<vms, user_vm, sessions>>

---------------------------------------------------------------------------
(* JSON API: users and profile (routes/api.py) *)

\* GET /api/v1/users
api_list_users(a) ==
    /\ a \in sessions
    /\ IF ~AdminGate(a) THEN Forbidden("api_list_users", a, 0)
       ELSE Respond("api_list_users", a, 0, 200, <<>>, UserDicts(UserIds)) /\ NoCommit

\* (value or '').strip() or None
StripOrNone(s) == IF Strip(OrEmpty(s)) = <<>> THEN None ELSE Strip(OrEmpty(s))

\* POST /api/v1/users
api_create_user(a, email_arg, full_name_arg, password_arg, is_admin_arg, is_blocked_arg) ==
    LET email == Lower(Strip(OrEmpty(email_arg)))
        full_name == StripOrNone(full_name_arg)
        password == Strip(OrEmpty(password_arg))
        errors == (IF email = <<>> THEN << "Email is required" >> ELSE <<>>)
               \o (IF password = <<>> \/ Len(password) < 6
                   THEN << "Password is required, at least 6 characters" >> ELSE <<>>)
               \o (IF UserByEmail(email) # 0
                   THEN << "A user with this email already exists" >> ELSE <<>>)
    IN /\ a \in sessions
       /\ IF ~AdminGate(a) THEN Forbidden("api_create_user", a, 0)
          ELSE IF errors # <<>>
          THEN Respond("api_create_user", a, 0, 400, errors, <<>>) /\ NoCommit
          ELSE /\ users' = Append(users, User(email, full_name,
                                  generate_password_hash(password),
                                  is_admin_arg, is_blocked_arg))
               /\ Respond("api_create_user", a, NewUserId, 201, <<>>,
                          << [id |-> NewUserId, email |-> email, full_name |-> full_name,
                              is_admin |-> is_admin_arg, is_blocked |-> is_blocked_arg] >>)
               /\ UNCHANGED <<vms, user_vm, sessions>>

\* PATCH /api/v1/users/<user_id>/block
api_block_user(a, user_id, blocked_f) ==
    /\ a \in sessions
    /\ IF ~AdminGate(a) THEN Forbidden("api_block_user", a, user_id)
       ELSE IF user_id \notin UserIds THEN NotFound("api_block_user", a, user_id)
       ELSE IF TargetIsAdmin(user_id)
       THEN Respond("api_block_user", a, user_id, 400,
                    << "An administrator cannot be blocked" >>, <<>>) /\ NoCommit
       ELSE IF ~blocked_f.present
       THEN Respond("api_block_user", a, user_id, 400,
                    << "Field 'blocked' is required" >>, <<>>) /\ NoCommit
       ELSE /\ users' = [users EXCEPT ![user_id].is_blocked = blocked_f.val]
            /\ Respond("api_block_user", a, user_id, 200, <<>>,
                       << [user_to_dict(user_id) EXCEPT !.is_blocked = blocked_f.val] >>)
            /\ UNCHANGED <<vms, user_vm, sessions>>

\* GET /api/v1/me
api_me(a) ==
    /\ a \in sessions
    /\ Respond("api_me", a, 0, 200, <<>>, << user_to_dict(a) >>)
    /\ NoCommit

\* PATCH /api/v1/me
api_update_me(a, email_arg, full_name_arg, new_password_arg, new_password2_arg) ==
    LET new_password == Strip(OrEmpty(new_password_arg))
        new_password2 == Strip(OrEmpty(new_password2_arg))
        admin_errors ==
            IF new_password # <<>> \/ new_password2 # <<>>
            THEN (IF Len(new_password) < 6
                  THEN << "Password must be at least 6 characters" >> ELSE <<>>)
              \o (IF new_password # new_password2
                  THEN << "Passwords do not match" >> ELSE <<>>)
            ELSE << "An administrator may change the password only" >>
        email == Lower(Strip(email_arg))
        email_errors ==
            IF email_arg = None THEN <<>>
            ELSE IF email = <<>> THEN << "Email is required" >>
            ELSE IF EmailTakenByOther(a, email)
            THEN << "A user with this email already exists" >>
            ELSE <<>>
        updated == [users[a] EXCEPT
                       !.email = IF email_arg # None THEN email ELSE @,
                       !.full_name = IF full_name_arg # None
                                     THEN StripOrNone(full_name_arg) ELSE @]
    IN /\ a \in sessions
       /\ IF is_admin(a)
          THEN IF admin_errors # <<>>
               THEN Respond("api_update_me", a, 0, 400, admin_errors, <<>>) /\ NoCommit
               ELSE /\ users' = [users EXCEPT ![a].password_hash =
                                                  generate_password_hash(new_password)]
                    /\ Respond("api_update_me", a, 0, 200, <<>>, << user_to_dict(a) >>)
                    /\ UNCHANGED <<vms, user_vm, sessions>>
          ELSE IF email_errors # <<>>
               THEN Respond("api_update_me", a, 0, 400, email_errors, <<>>) /\ NoCommit
               ELSE /\ users' = [users EXCEPT ![a] = updated]
                    /\ Respond("api_update_me", a, 0, 200, <<>>,
                               << [id |-> a, email |-> updated.email,
                                   full_name |-> updated.full_name,
                                   is_admin |-> updated.is_admin,
                                   is_blocked |-> updated.is_blocked] >>)
                    /\ UNCHANGED <<vms, user_vm, sessions>>

\* GET /api/v1/users/<user_id>
api_get_user(a, user_id) ==
    /\ a \in sessions
    /\ IF ~AdminGate(a) THEN Forbidden("api_get_user", a, user_id)
       ELSE IF user_id \notin UserIds THEN NotFound("api_get_user", a, user_id)
       ELSE Respond("api_get_user", a, user_id, 200, <<>>, << user_to_dict(user_id) >>)
            /\ NoCommit

\* column ILIKE '%q%': q occurs in s, letter case ignored; NULL never matches
ILike(s, q) ==
    /\ s # None
    /\ \E i \in 0..(Len(s) - Len(q)) :
          Lower(SubSeq(s, i + 1, i + Len(q))) = Lower(q)

\* GET /api/v1/users/search
api_search_users(a, q_arg) ==
    LET q == Strip(OrEmpty(q_arg))
        found == { u \in UserIds : ILike(users[u].email, q) \/ ILike(users[u].full_name, q) }
    IN /\ a \in sessions
       /\ IF ~AdminGate(a) THEN Forbidden("api_search_users", a, 0)
          ELSE IF q = <<>>
          THEN Respond("api_search_users", a, 0, 400, << "q is required" >>, <<>>) /\ NoCommit
          ELSE Respond("api_search_users", a, 0, 200, <<>>, UserDicts(found)) /\ NoCommit

---------------------------------------------------------------------------
(* The system *)

NoResponse == Response("none", 0, 0, 0, <<>>, <<>>, 0)

\* empty tables (flask init-db), nobody logged in
Init ==
    /\ users = <<>>
    /\ vms = <<>>
    /\ user_vm = {}
    /\ sessions = {}
    /\ resp = NoResponse
    /\ inflight = NoneInflight

\* ids a path or a body can name: the existing ones and one that resolves to nothing
VmIdInputs == 1..(Len(vms) + 1)
UserIdInputs == 1..(Len(users) + 1)

BlockedFields == { Absent, Field(TRUE), Field(FALSE) }

\* the bodies of PATCH /vms/<vm_id>: each field may be absent
VmPatch(name_f, ram_f, cpu_f) == [name |-> name_f, ram_gb |-> ram_f, cpu |-> cpu_f]

VmPatches ==
    { VmPatch(Absent, Absent, Absent),
      VmPatch(Field(<< "a" >>), Field(RawInt(0)), Field(RawInt(1))),
      VmPatch(Field(<< " ","b" >>), Field(RawInt(32)), Field(RawInt(16))),
      VmPatch(Field(Blank), Absent, Absent),
      VmPatch(Field(None), Absent, Absent),
      VmPatch(Field(<< " ","b" >>), Field(RawInt(33)), Absent),
      VmPatch(Absent, Field(RawInt(-1)), Absent),
      VmPatch(Absent, Field(NotInt), Absent),
      VmPatch(Absent, Absent, Field(RawInt(0))),
      VmPatch(Absent, Field(RawInt(32)), Field(RawInt(17))),
      VmPatch(Absent, Absent, Field(NotInt)) }

\* the vm_ids lists of the bulk delete form: up to two entries, repeats included
IdListInputs ==
    LET entries == { RawInt(v) : v \in VmIdInputs } \cup { NotInt }
    IN { <<>> } \cup { << x >> : x \in entries }
                \cup { << x, y >> : x \in entries, y \in entries }

\* the fields full_name, email, password of the registration form
RegisterForm(full_name, email, password) ==
    [full_name |-> full_name, email |-> email, password |-> password]

RegisterForms ==
    { RegisterForm(NameN, EmailA, Secret),
      RegisterForm(NameN, EmailC, Secret),
      RegisterForm(NameN, AdminEmail, Secret),
      RegisterForm(NameN, None, Secret),
      RegisterForm(NameN, EmailC, None) }

\* the fields email, password of the login form
LoginForm(email, password) == [email |-> email, password |-> password]

LoginForms ==
    { LoginForm(EmailA, Secret),
      LoginForm(EmailC, Secret),
      LoginForm(EmailA, AdminPassword),
      LoginForm(AdminEmail, AdminPassword),
      LoginForm(AdminEmail, Secret),
      LoginForm(None, Secret),
      LoginForm(EmailA, None) }

\* the bodies of POST /users
UserBody(email, full_name, password, adm, blocked) ==
    [email |-> email, full_name |-> full_name, password |-> password,
     is_admin |-> adm, is_blocked |-> blocked]

UserBodies ==
    { UserBody(EmailA, NameN, Secret, ia, ib) : ia \in BOOLEAN, ib \in BOOLEAN }
    \cup { UserBody(EmailC, NameN, Short, FALSE, FALSE),
           UserBody(None, NameN, Secret, FALSE, FALSE),
           UserBody(Blank, NameN, None, FALSE, FALSE) }

\* the fields full_name, email of the profile form
ProfileForm(full_name, email) == [full_name |-> full_name, email |-> email]

ProfileForms ==
    { ProfileForm(NameN, EmailA),
      ProfileForm(NameN, EmailC),
      ProfileForm(NameN, None) }

\* the bodies of PATCH /me
MeBody(email, full_name, new_password, new_password2) ==
    [email |-> email, full_name |-> full_name,
     new_password |-> new_password, new_password2 |-> new_password2]

MeBodies ==
    { MeBody(None, None, None, None),
      MeBody(EmailA, NameN, None, None),
      MeBody(EmailC, None, None, None),
      MeBody(Blank, NameN, None, None),
      MeBody(EmailA, NameN, Secret, Secret),
      MeBody(None, None, Secret, Short),
      MeBody(None, None, Short, Short) }

QueryInputs == { None, Blank, << "B" >>, NameN }

\* requests that read or write the VM tables
NextVm ==
    \/ \E a \in sessions, i \in BoolInputs, l \in BoolInputs : api_list_vms(a, i, l)
    \/ \E a \in sessions, f \in VmForms, o \in 0..(Len(users) + 1) :
            Len(vms) < MaxVms /\ api_create_vm(a, f.name, f.ram_gb, f.cpu, o)
    \/ \E a \in sessions, v \in VmIdInputs : api_get_vm(a, v)
    \/ \E a \in sessions, v \in VmIdInputs, f \in VmPatches :
            api_update_vm(a, v, f.name, f.ram_gb, f.cpu)
    \/ \E a \in sessions, v \in VmIdInputs : api_delete_vm(a, v)
    \/ \E a \in sessions : vms_page(a)
    \/ \E a \in sessions, m \in Methods, f \in VmForms :
            Len(vms) < MaxVms /\ vm_create(a, m, f.name, f.ram_gb, f.cpu)
    \/ \E a \in sessions, ids \in IdListInputs : vms_delete(a, ids)
    \/ \E a \in sessions, v \in VmIdInputs, m \in Methods, f \in VmForms :
            vm_edit(a, v, m, f.name, f.ram_gb, f.cpu)
    \/ \E a \in sessions : admin_vms(a)

\* requests that read or write the users table or the sessions
NextUser ==
    \/ \E a \in sessions \cup {0}, m \in Methods, f \in RegisterForms :
            Len(users) < MaxUsers /\ register(a, m, f.full_name, f.email, f.password)
    \/ \E a \in sessions \cup {0}, m \in Methods, f \in LoginForms :
            login(a, m, f.email, f.password)
    \/ \E a \in sessions : logout(a)
    \/ \E a \in sessions, m \in Methods, f \in ProfileForms :
            profile(a, m, f.full_name, f.email)
    \/ login_required
    \/ \E a \in sessions : admin_users(a)
    \/ \E a \in sessions, u \in UserIdInputs : admin_toggle_block(a, u)
    \/ (UserByEmail(Lower(AdminEmail)) # 0 \/ Len(users) < MaxUsers) /\ ensure_admin
    \/ \E a \in sessions : api_list_users(a)
    \/ \E a \in sessions, b \in UserBodies :
            Len(users) < MaxUsers
            /\ api_create_user(a, b.email, b.full_name, b.password, b.is_admin, b.is_blocked)
    \/ \E a \in sessions, u \in UserIdInputs, b \in BlockedFields : api_block_user(a, u, b)
    \/ \E a \in sessions : api_me(a)
    \/ \E a \in sessions, b \in MeBodies :
            api_update_me(a, b.email, b.full_name, b.new_password, b.new_password2)
    \/ \E a \in sessions, u \in UserIdInputs : api_get_user(a, u)
    \/ \E a \in sessions, q \in QueryInputs : api_search_users(a, q)

Spec == Init /\ [][NextUser]_vars

\* a populated system: the administrator made by ensure-admin and two
\* registered users, each with a session
InitVm ==
    /\ users = << User(Lower(AdminEmail), << "A","d","m","i","n","i","s","t","r","a","t","o","r" >>,
                       generate_password_hash(AdminPassword), TRUE, FALSE),
                  User(Lower(EmailA), NameN, generate_password_hash(Secret), FALSE, FALSE),
                  User(Lower(EmailC), NameN, generate_password_hash(Secret), FALSE, FALSE) >>
    /\ vms = <<>>
    /\ user_vm = {}
    /\ sessions = { 1, 2, 3 }
    /\ resp = NoResponse
    /\ inflight = NoneInflight

SpecVm == InitVm /\ [][NextVm]_vars

\* the operations reserved to administrators
NextAdmin ==
    \/ \E a \in sessions : admin_users(a)
    \/ \E a \in sessions, u \in UserIdInputs : admin_toggle_block(a, u)
    \/ \E a \in sessions : admin_vms(a)
    \/ \E a \in sessions : api_list_users(a)
    \/ \E a \in sessions, b \in UserBodies :
            Len(users) <= MaxUsers
            /\ api_create_user(a, b.email, b.full_name, b.password, b.is_admin, b.is_blocked)
    \/ \E a \in sessions, u \in UserIdInputs, b \in BlockedFields : api_block_user(a, u, b)
    \/ \E a \in sessions, u \in UserIdInputs : api_get_user(a, u)
    \/ \E a \in sessions, q \in QueryInputs : api_search_users(a, q)

\* a populated system: the administrator and one registered user, each with
\* a session, and a VM of the user's
InitAdmin ==
    /\ users = << User(Lower(AdminEmail), << "A","d","m","i","n","i","s","t","r","a","t","o","r" >>,
                       generate_password_hash(AdminPassword), TRUE, FALSE),
                  User(Lower(EmailC), NameN, generate_password_hash(Secret), FALSE, FALSE) >>
    /\ vms = << Vm(<< "a" >>, 0, 1, FALSE) >>
    /\ user_vm = { <<2, 1>> }
    /\ sessions = { 1, 2 }
    /\ resp = NoResponse
    /\ inflight = NoneInflight

SpecAdmin == InitAdmin /\ [][NextAdmin]_vars

\* requests that list or soft-delete VMs
NextFleet ==
    \/ \E a \in sessions, i \in BoolInputs, l \in BoolInputs : api_list_vms(a, i, l)
    \/ \E a \in sessions, v \in VmIdInputs : api_delete_vm(a, v)
    \/ \E a \in sessions : vms_page(a)
    \/ \E a \in sessions, ids \in IdListInputs : vms_delete(a, ids)
    \/ \E a \in sessions : admin_vms(a)

\* a populated system: the administrator and two registered users, each with
\* a session; the first user has created two VMs, the second user one and
\* the administrator one
InitFleet ==
    /\ users = << User(Lower(AdminEmail), << "A","d","m","i","n","i","s","t","r","a","t","o","r" >>,
                       generate_password_hash(AdminPassword), TRUE, FALSE),
                  User(Lower(EmailA), NameN, generate_password_hash(Secret), FALSE, FALSE),
                  User(Lower(EmailC), NameN, generate_password_hash(Secret), FALSE, FALSE) >>
    /\ vms = << Vm(<< "a" >>, 0, 1, FALSE), Vm(<< "b" >>, 32, 16, FALSE),
                Vm(<< "a" >>, 0, 1, FALSE), Vm(<< "a" >>, 0, 1, FALSE) >>
    /\ user_vm = { <<2, 1>>, <<2, 2>>, <<3, 3>>, <<1, 4>> }
    /\ sessions = { 1, 2, 3 }
    /\ resp = NoResponse
    /\ inflight = NoneInflight

SpecFleet == InitFleet /\ [][NextFleet]_vars

---------------------------------------------------------------------------
(* The handlers that commit, step by step: every request has a session of   *)
(* its own; a handler's reads and attribute writes are local to its session *)
(* until db.session.commit(), and a session that is torn down without a     *)
(* commit is rolled back.                                                   *)

\* a validation error that does not stop the commit
HasErrors_never(q) == FALSE

\* `if errors: return ...` before the commit
HasErrors(q) == q.errors # <<>>

\* the worker that takes the next request
FreeSlot == CHOOSE s \in Slots : inflight[s].op = "idle" /\
                                 \A t \in Slots : inflight[t].op = "idle" => s <= t

CanBegin == \E s \in Slots : inflight[s].op = "idle"

Begin(q) == inflight' = [inflight EXCEPT ![FreeSlot] = q]

End(s) == inflight' = [inflight EXCEPT ![s] = Idle]

\* the answer of a handler that returns before it has written anything
Answer(op, a, t, status, msgs, body) ==
    /\ resp' = Response(op, a, t, status, msgs, body, 0)
    /\ UNCHANGED <<users, vms, user_vm, sessions, inflight>>

\* the flush of a commit: UPDATE ... SET the attributes whose value differs
\* from the loaded one, on the row as it is now
Flush(row, loaded, pending) ==
    [f \in DOMAIN row |-> IF pending[f] # loaded[f] THEN pending[f] ELSE row[f]]

\* the session is removed with its pending writes: 400 with the errors
Rollback(s) ==
    LET q == inflight[s]
    IN /\ resp' = Response(q.op, q.actor, q.target, 400, q.errors, <<>>, 0)
       /\ End(s)
       /\ UNCHANGED <<users, vms, user_vm, sessions>>

\* PATCH /api/v1/vms/<vm_id>, up to the last attribute write
api_update_vm_begin(a, vm_id, name_f, ram_f, cpu_f) ==
    LET vm == vms[vm_id]
        name == IF name_f.present THEN Strip(OrEmpty(name_f.val)) ELSE <<>>
        name_ok == name_f.present /\ name # <<>>
        ram_ok == ram_f.present /\ ram_f.val.isint /\ RamInRange(ram_f.val.val)
        cpu_ok == cpu_f.present /\ cpu_f.val.isint /\ CpuInRange(cpu_f.val.val)
        errors == (IF name_f.present /\ ~name_ok
                   THEN << "Name must not be empty" >> ELSE <<>>)
               \o (IF ~ram_f.present \/ ram_ok THEN <<>>
                   ELSE IF ~ram_f.val.isint THEN << "ram_gb must be an integer" >>
                   ELSE << "RAM from 0 to 32" >>)
               \o (IF ~cpu_f.present \/ cpu_ok THEN <<>>
                   ELSE IF ~cpu_f.val.isint THEN << "cpu must be an integer" >>
                   ELSE << "CPU from 1 to 16" >>)
        written == [vm EXCEPT !.name = IF name_ok THEN name ELSE @,
                              !.ram_gb = IF ram_ok THEN ram_f.val.val ELSE @,
                              !.cpu = IF cpu_ok THEN cpu_f.val.val ELSE @]
    IN /\ a \in sessions
       /\ CanBegin
       /\ IF vm_id \notin VmIds THEN Answer("api_update_vm", a, vm_id, 404, <<>>, <<>>)
          ELSE IF ~ApiVmPermitted(a, vm_id)
          THEN Answer("api_update_vm", a, vm_id, 403, <<>>, <<>>)
          ELSE IF VmIsDeleted(vm_id)
          THEN Answer("api_update_vm", a, vm_id, 400,
                      << "A deleted VM cannot be edited" >>, <<>>)
          ELSE /\ Begin(Request("api_update_vm", a, vm_id, vm, written, errors, {}))
               /\ UNCHANGED <<users, vms, user_vm, sessions, resp>>

\* PATCH /api/v1/vms/<vm_id>, from `if errors` on
api_update_vm_finish(s) ==
    LET q == inflight[s]
        row == Flush(vms[q.target], q.loaded, q.pending)
    IN /\ q.op = "api_update_vm"
       /\ IF HasErrors(q) THEN Rollback(s)
          ELSE /\ vms' = [vms EXCEPT ![q.target] = row]
               /\ resp' = Response(q.op, q.actor, q.target, 200, <<>>,
                                   << [id |-> q.target, name |-> row.name,
                                       ram_gb |-> row.ram_gb, cpu |-> row.cpu,
                                       is_deleted |-> row.is_deleted] >>, 0)
               /\ End(s)
               /\ UNCHANGED <<users, user_vm, sessions>>

\* POST /vms/<vm_id>/edit, up to the last attribute write
vm_edit_begin(a, vm_id, name_arg, ram_arg, cpu_arg) ==
    LET vm == vms[vm_id]
        name == Strip(OrEmpty(name_arg))
        errors == (IF ~ram_arg.isint \/ ~cpu_arg.isint
                   THEN << "RAM and CPU must be numbers" >>
                   ELSE (IF ~RamInRange(ram_arg.val) THEN << "RAM from 0 to 32" >> ELSE <<>>)
                     \o (IF ~CpuInRange(cpu_arg.val) THEN << "CPU from 1 to 16" >> ELSE <<>>))
               \o (IF name = <<>> THEN << "Name is required" >> ELSE <<>>)
        written == [vm EXCEPT !.name = name, !.ram_gb = ram_arg.val, !.cpu = cpu_arg.val]
    IN /\ a \in sessions
       /\ CanBegin
       /\ IF vm_id \notin VmIds THEN Answer("vm_edit", a, vm_id, 404, <<>>, <<>>)
          ELSE IF ~UiVmPermitted(a, vm_id) THEN Answer("vm_edit", a, vm_id, 403, <<>>, <<>>)
          ELSE IF VmIsDeleted(vm_id)
          THEN Answer("vm_edit", a, vm_id, 302, << "A deleted VM cannot be edited" >>, <<>>)
          ELSE IF errors # <<>>
          THEN Answer("vm_edit", a, vm_id, 200, errors, << vm_to_dict(vm_id) >>)
          ELSE /\ Begin(Request("vm_edit", a, vm_id, vm, written, <<>>, {}))
               /\ UNCHANGED <<users, vms, user_vm, sessions, resp>>

\* POST /vms/<vm_id>/edit: db.session.commit() and the redirect
vm_edit_finish(s) ==
    LET q == inflight[s]
    IN /\ q.op = "vm_edit"
       /\ vms' = [vms EXCEPT ![q.target] = Flush(vms[q.target], q.loaded, q.pending)]
       /\ resp' = Response(q.op, q.actor, q.target, 302, << "VM updated" >>, <<>>, 0)
       /\ End(s)
       /\ UNCHANGED <<users, user_vm, sessions>>

\* DELETE /api/v1/vms/<vm_id>, up to vm.is_deleted = True
api_delete_vm_begin(a, vm_id) ==
    LET vm == vms[vm_id]
    IN /\ a \in sessions
       /\ CanBegin
       /\ IF vm_id \notin VmIds THEN Answer("api_delete_vm", a, vm_id, 404, <<>>, <<>>)
          ELSE IF ~ApiVmPermitted(a, vm_id)
          THEN Answer("api_delete_vm", a, vm_id, 403, <<>>, <<>>)
          ELSE IF VmIsDeleted(vm_id)
          THEN Answer("api_delete_vm", a, vm_id, 204, <<>>, <<>>)
          ELSE /\ Begin(Request("api_delete_vm", a, vm_id, vm,
                                [vm EXCEPT !.is_deleted = TRUE], <<>>, {}))
               /\ UNCHANGED <<users, vms, user_vm, sessions, resp>>

\* DELETE /api/v1/vms/<vm_id>: db.session.commit() and 204
api_delete_vm_finish(s) ==
    LET q == inflight[s]
    IN /\ q.op = "api_delete_vm"
       /\ vms' = [vms EXCEPT ![q.target] = Flush(vms[q.target], q.loaded, q.pending)]
       /\ resp' = Response(q.op, q.actor, q.target, 204, <<>>, <<>>, 0)
       /\ End(s)
       /\ UNCHANGED <<users, user_vm, sessions>>

\* POST /vms/delete, up to target_ids
vms_delete_begin(a, ids_arg) ==
    LET ids == IdSet(ids_arg)
        owned_vm_ids == OwnedVmIds(a)
        target_ids == { vid \in ids : vid \in owned_vm_ids }
    IN /\ a \in sessions
       /\ CanBegin
       /\ IF \E i \in 1..Len(ids_arg) : ~ids_arg[i].isint
          THEN Answer("vms_delete", a, 0, 302, << "Malformed VM ids" >>, <<>>)
          ELSE IF ids = {}
          THEN Answer("vms_delete", a, 0, 302, << "No VM selected" >>, <<>>)
          ELSE IF target_ids = {}
          THEN Answer("vms_delete", a, 0, 302, << "No VM available for deletion" >>, <<>>)
          ELSE /\ Begin(Request("vms_delete", a, 0, <<>>, <<>>, <<>>, target_ids))
               /\ UNCHANGED <<users, vms, user_vm, sessions, resp>>

\* POST /vms/delete: the UPDATE ... WHERE id IN (target_ids) and its commit
vms_delete_finish(s) ==
    LET q == inflight[s]
    IN /\ q.op = "vms_delete"
       /\ vms' = [v \in VmIds |->
                     IF v \in q.ids THEN [vms[v] EXCEPT !.is_deleted = TRUE] ELSE vms[v]]
       /\ resp' = Response(q.op, q.actor, 0, 302, << "Marked as deleted" >>, <<>>,
                           Cardinality(q.ids))
       /\ End(s)
       /\ UNCHANGED <<users, user_vm, sessions>>

\* POST /vms/create, up to the first db.session.commit(): the VM row
vm_create_begin(a, name_arg, ram_arg, cpu_arg) ==
    LET name == Strip(name_arg)
        errors == (IF ~RamInRange(ram_arg.val) THEN << "RAM from 0 to 32" >> ELSE <<>>)
               \o (IF ~CpuInRange(cpu_arg.val) THEN << "CPU from 1 to 16" >> ELSE <<>>)
        vm_id == Len(vms) + 1
        vm == Vm(name, ram_arg.val, cpu_arg.val, FALSE)
    IN /\ a \in sessions
       /\ CanBegin
       /\ IF name_arg = None
          THEN Answer("vm_create", a, 0, 500, <<>>, <<>>)
          ELSE IF ~ram_arg.isint \/ ~cpu_arg.isint
          THEN Answer("vm_create", a, 0, 200, << "RAM and CPU must be numbers" >>, <<>>)
          ELSE IF errors # <<>>
          THEN Answer("vm_create", a, 0, 200, errors, <<>>)
          ELSE /\ vms' = Append(vms, vm)
               /\ Begin(Request("vm_create", a, vm_id, vm, vm, <<>>, {}))
               /\ UNCHANGED <<users, user_vm, sessions, resp>>

\* POST /vms/create: current_user.vms.append(vm), the second commit, the redirect
vm_create_finish(s) ==
    LET q == inflight[s]
    IN /\ q.op = "vm_create"
       /\ user_vm' = user_vm \cup { <<q.actor, q.target>> }
       /\ resp' = Response(q.op, q.actor, q.target, 302, << "VM created" >>, <<>>, 0)
       /\ End(s)
       /\ UNCHANGED <<users, vms, sessions>>

\* PATCH /api/v1/me, up to the last attribute write
api_update_me_begin(a, email_arg, full_name_arg, new_password_arg, new_password2_arg) ==
    LET me == users[a]
        new_password == Strip(OrEmpty(new_password_arg))
        new_password2 == Strip(OrEmpty(new_password2_arg))
        admin_errors ==
            IF new_password # <<>> \/ new_password2 # <<>>
            THEN (IF Len(new_password) < 6
                  THEN << "Password must be at least 6 characters" >> ELSE <<>>)
              \o (IF new_password # new_password2
                  THEN << "Passwords do not match" >> ELSE <<>>)
            ELSE << "An administrator may change the password only" >>
        email == Lower(Strip(email_arg))
        email_errors ==
            IF email_arg = None THEN <<>>
            ELSE IF email = <<>> THEN << "Email is required" >>
            ELSE IF EmailTakenByOther(a, email)
            THEN << "A user with this email already exists" >>
            ELSE <<>>
        written ==
            IF is_admin(a)
            THEN [me EXCEPT !.password_hash =
                                IF admin_errors = <<>>
                                THEN generate_password_hash(new_password) ELSE @]
            ELSE [me EXCEPT !.email = IF email_arg # None /\ email_errors = <<>>
                                      THEN email ELSE @,
                            !.full_name = IF full_name_arg # None
                                          THEN StripOrNone(full_name_arg) ELSE @]
    IN /\ a \in sessions
       /\ CanBegin
       /\ Begin(Request("api_update_me", a, 0, me, written,
                        IF is_admin(a) THEN admin_errors ELSE email_errors, {}))
       /\ UNCHANGED <<users, vms, user_vm, sessions, resp>>

\* PATCH /api/v1/me, from the commit on; the unique index on users.email
\* refuses a commit that would store an email another row holds by now
api_update_me_finish(s) ==
    LET q == inflight[s]
        row == Flush(users[q.actor], q.loaded, q.pending)
    IN /\ q.op = "api_update_me"
       /\ IF HasErrors(q) THEN Rollback(s)
          ELSE IF row.email # users[q.actor].email /\ EmailTakenByOther(q.actor, row.email)
          THEN /\ resp' = Response(q.op, q.actor, 0, 500, <<>>, <<>>, 0)
               /\ End(s)
               /\ UNCHANGED <<users, vms, user_vm, sessions>>
          ELSE /\ users' = [users EXCEPT ![q.actor] = row]
               /\ resp' = Response(q.op, q.actor, 0, 200, <<>>,
                                   << [id |-> q.actor, email |-> row.email,
                                       full_name |-> row.full_name,
                                       is_admin |-> row.is_admin,
                                       is_blocked |-> row.is_blocked] >>, 0)
               /\ End(s)
               /\ UNCHANGED <<vms, user_vm, sessions>>

\* at most this many rows in table vm in the step by step specifications
MaxTxVms == MaxVms + 1

\* the bodies of PATCH /vms/<vm_id>: a valid body, and two bodies with one
\* valid and one invalid field
TxPatches ==
    { VmPatch(Field(<< " ","b" >>), Field(RawInt(32)), Field(RawInt(16))),
      VmPatch(Field(<< " ","b" >>), Field(RawInt(33)), Absent),
      VmPatch(Absent, Field(RawInt(32)), Field(RawInt(17))) }

\* the edit and create forms: a valid one and one with ram_gb out of range
TxForms ==
    { VmForm(<< " ","b" >>, RawInt(32), RawInt(16)),
      VmForm(<< "a" >>, RawInt(33), RawInt(1)) }

\* the bodies of PATCH /me: a full_name with an email, with an empty email,
\* with mismatched passwords, with matching passwords
TxMeBodies ==
    { MeBody(EmailC, NameN, None, None),
      MeBody(Blank, NameN, None, None),
      MeBody(None, NameN, Secret, Short),
      MeBody(EmailC, NameN, Secret, Secret) }

\* the vm_ids lists of the bulk delete form
TxIdLists == { << RawInt(1) >>, << RawInt(1), RawInt(2) >> }

\* no request is in flight: the next one does not overlap with another
OneAtATime == \A s \in Slots : inflight[s].op = "idle"

\* the requests that commit, one at a time, their commit points visible
NextTx ==
    \/ \E a \in sessions, v \in VmIdInputs, f \in TxPatches :
            OneAtATime /\ api_update_vm_begin(a, v, f.name, f.ram_gb, f.cpu)
    \/ \E s \in Slots : api_update_vm_finish(s)
    \/ \E a \in sessions, ids \in TxIdLists : OneAtATime /\ vms_delete_begin(a, ids)
    \/ \E s \in Slots : vms_delete_finish(s)
    \/ \E a \in sessions, f \in TxForms :
            OneAtATime /\ Len(vms) < MaxTxVms
            /\ vm_create_begin(a, f.name, f.ram_gb, f.cpu)
    \/ \E s \in Slots : vm_create_finish(s)
    \/ \E a \in sessions, f \in TxForms :
            OneAtATime /\ Len(vms) < MaxTxVms
            /\ api_create_vm(a, f.name, f.ram_gb, f.cpu, 0)
    \/ \E a \in sessions, b \in TxMeBodies :
            OneAtATime
            /\ api_update_me_begin(a, b.email, b.full_name, b.new_password, b.new_password2)
    \/ \E s \in Slots : api_update_me_finish(s)

\* a populated system: the administrator and two registered users, a
\* session of the administrator and of the first user, a VM the first user
\* has created; no request in flight
InitTx ==
    /\ users = << User(Lower(AdminEmail), << "A","d","m","i","n","i","s","t","r","a","t","o","r" >>,
                       generate_password_hash(AdminPassword), TRUE, FALSE),
                  User(Lower(EmailA), Short, generate_password_hash(Secret), FALSE, FALSE),
                  User(Lower(EmailC), Short, generate_password_hash(Secret), FALSE, FALSE) >>
    /\ vms = << Vm(<< "a" >>, 0, 1, FALSE) >>
    /\ user_vm = { <<2, 1>> }
    /\ sessions = { 1, 2 }
    /\ resp = NoResponse
    /\ inflight = NoneInflight

SpecTx == InitTx /\ [][NextTx]_vars

\* the requests that update or soft-delete a VM, overlapping: a request may
\* begin while others are between their read and their commit
NextRace ==
    \/ \E a \in sessions, v \in VmIdInputs, f \in TxPatches :
            api_update_vm_begin(a, v, f.name, f.ram_gb, f.cpu)
    \/ \E s \in Slots : api_update_vm_finish(s)
    \/ \E a \in sessions, v \in VmIdInputs, f \in TxForms :
            vm_edit_begin(a, v, f.name, f.ram_gb, f.cpu)
    \/ \E s \in Slots : vm_edit_finish(s)
    \/ \E a \in sessions, v \in VmIdInputs : api_delete_vm_begin(a, v)
    \/ \E s \in Slots : api_delete_vm_finish(s)
    \/ \E a \in sessions, ids \in TxIdLists : vms_delete_begin(a, ids)
    \/ \E s \in Slots : vms_delete_finish(s)

SpecRace == InitAdmin /\ [][NextRace]_vars

---------------------------------------------------------------------------
(* Outcomes *)

SuccessMsgs ==
    { "VM created", "VM updated", "Marked as deleted", "Profile updated",
      "Blocked", "Unblocked" }

\* a validation outcome: 400, or a page or redirect that carries error messages
IsValidation(r) ==
    \/ r.status = 400
    \/ /\ r.status \in { 200, 302 }
       /\ r.op # "login_required"
       /\ r.msgs # <<>>
       /\ \A i \in 1..Len(r.msgs) : r.msgs[i] \notin SuccessMsgs

IsForbidden(r) == r.status = 403

IsNotFound(r) == r.status = 404

\* the response shows none of the fields of VM v
HidesVm(r, v) == \A i \in 1..Len(r.body) : r.body[i].id # v

\* the handlers that act on one VM named in the path
VmByIdOps == { "api_get_vm", "api_update_vm", "api_delete_vm", "vm_edit" }

\* the handlers that update or soft-delete one VM named in the path
VmWriteOps == { "api_update_vm", "api_delete_vm", "vm_edit" }

Owns(a, v) == <<a, v>> \in user_vm

---------------------------------------------------------------------------
(* C1 *)

\* C1: a non-admin actor who does not own an existing VM gets forbidden from
\* GET/PATCH/DELETE /vms/{id} and from /vms/{id}/edit, is shown none of the
\* VM's fields and changes nothing; the bulk delete changes no VM the actor
\* does not own; an id that resolves to no VM gets not-found.
C1_Step ==
    LET r == resp'
    IN /\ (r.op \in VmByIdOps /\ ~is_admin(r.actor) /\ r.target \in VmIds
              /\ ~Owns(r.actor, r.target))
          => (IsForbidden(r) /\ r.body = <<>> /\ vms' = vms /\ user_vm' = user_vm)
       /\ (r.op \in VmByIdOps /\ r.target \notin VmIds)
          => (IsNotFound(r) /\ r.body = <<>> /\ vms' = vms /\ user_vm' = user_vm)
       /\ (r.op = "vms_delete" /\ ~is_admin(r.actor))
          => (/\ r.body = <<>>
              /\ user_vm' = user_vm
              /\ \A v \in VmIds : ~Owns(r.actor, v) => vms'[v] = vms[v])

\* C1 holds of every step
C1_NonOwnerDenied == [][C1_Step]_vars

\* a non-admin, non-owner actor has sent PATCH /vms/{id} for an existing VM
C1_Witness ==
    /\ resp.op = "api_update_vm"
    /\ resp.target \in VmIds
    /\ ~is_admin(resp.actor)
    /\ ~Owns(resp.actor, resp.target)
    /\ IsForbidden(resp)

---------------------------------------------------------------------------
(* C2 *)

\* C2: on an existing, not deleted VM no read, update or soft-delete by an
\* admin or by an owner is answered with forbidden, the UI edit included.
C2_Step ==
    LET r == resp'
    IN (r.op \in VmByIdOps /\ r.target \in VmIds /\ ~vms[r.target].is_deleted
           /\ (is_admin(r.actor) \/ Owns(r.actor, r.target)))
       => ~IsForbidden(r)

\* C2 holds of every step
C2_AdminOrOwnerPermitted == [][C2_Step]_vars

---------------------------------------------------------------------------
(* C3 *)

\* C3 as stated: every update and every further soft-delete of a deleted VM
\* (PATCH, DELETE, UI edit) ends in a validation outcome, owner or not.
\* Stated here for the requests that pass the handler's authorization gate,
\* the reading most favourable to the claim.
C3_Step ==
    LET r == resp'
    IN (r.op \in VmWriteOps /\ r.target \in VmIds /\ vms[r.target].is_deleted
           /\ ~IsForbidden(r))
       => IsValidation(r)

\* C3 as stated holds of every step
C3_DeletedRejectsAll == [][C3_Step]_vars

\* C3 as amended: on a deleted VM, PATCH by an admin or an owner gets 400 and
\* the UI edit by an owner gets a validation message; DELETE by an admin or
\* an owner is answered 204; an actor the handler's gate does not let through
\* (API: neither admin nor owner; UI edit: not an owner) gets forbidden; the
\* VM is unchanged in every case.
C3_AmendedStep ==
    LET r == resp'
        api_ok == is_admin(r.actor) \/ Owns(r.actor, r.target)
        ui_ok == Owns(r.actor, r.target)
    IN (r.op \in VmWriteOps /\ r.target \in VmIds /\ vms[r.target].is_deleted)
       => /\ vms' = vms
          /\ user_vm' = user_vm
          /\ r.op = "api_update_vm" =>
                IF api_ok THEN r.status = 400 /\ IsValidation(r) ELSE IsForbidden(r)
          /\ r.op = "vm_edit" =>
                IF ui_ok THEN r.status = 302 /\ IsValidation(r) ELSE IsForbidden(r)
          /\ r.op = "api_delete_vm" =>
                IF api_ok THEN r.status = 204 /\ ~IsValidation(r) ELSE IsForbidden(r)

\* C3 as amended holds of every step
C3_DeletedRejectsUpdates == [][C3_AmendedStep]_vars

\* an admin who is not an owner has sent PATCH /vms/{id} for a deleted VM
C3_Witness ==
    /\ resp.op = "api_update_vm"
    /\ resp.target \in VmIds
    /\ vms[resp.target].is_deleted
    /\ is_admin(resp.actor)
    /\ ~Owns(resp.actor, resp.target)
    /\ resp.status = 400

---------------------------------------------------------------------------
(* C4 *)

\* C4: once a VM is soft-deleted, no request changes its name, ram_gb, cpu or
\* is_deleted; GET /vms/{id} still returns it to its owner and to admins;
\* the owner's default listings (GET /vms without flags, UI /vms) leave it out.
C4_Step ==
    LET r == resp'
    IN /\ \A v \in VmIds : vms[v].is_deleted => (v \in DOMAIN vms' /\ vms'[v] = vms[v])
       /\ (r.op = "api_get_vm" /\ r.target \in VmIds /\ vms[r.target].is_deleted
              /\ (is_admin(r.actor) \/ Owns(r.actor, r.target)))
          => (r.status = 200 /\ r.body = << vm_to_dict(r.target) >>)
       /\ \A a \in sessions :
             (api_list_vms(a, None, None) \/ vms_page(a))
             => \A v \in VmIds : vms[v].is_deleted => HidesVm(r, v)

\* C4 holds of every step
C4_DeletedIsFinal == [][C4_Step]_vars

\* the owner of a deleted VM, not an admin, has fetched it by id
C4_Witness ==
    /\ resp.op = "api_get_vm"
    /\ resp.target \in VmIds
    /\ vms[resp.target].is_deleted
    /\ Owns(resp.actor, resp.target)
    /\ ~is_admin(resp.actor)
    /\ resp.status = 200

---------------------------------------------------------------------------
(* C5 *)

BlockOps == { "api_block_user", "admin_toggle_block" }

\* C5: a block, unblock or toggle-block request by an admin whose target is
\* an admin (the acting admin included) ends in a validation outcome on both
\* endpoints and leaves the target's is_blocked as it was.
C5_Step ==
    LET r == resp'
    IN (r.op \in BlockOps /\ is_admin(r.actor) /\ r.target \in UserIds
           /\ users[r.target].is_admin)
       => (IsValidation(r) /\ users' = users)

\* C5 holds of every step
C5_AdminNeverBlocked == [][C5_Step]_vars

\* an admin has sent toggle-block for another admin
C5_Witness ==
    /\ resp.op = "admin_toggle_block"
    /\ resp.target \in UserIds
    /\ resp.target # resp.actor
    /\ is_admin(resp.actor)
    /\ users[resp.target].is_admin
    /\ IsValidation(resp)

---------------------------------------------------------------------------
(* C6 *)

\* C6: no user row has is_admin and is_blocked both true.
C6_NoBlockedAdmin ==
    \A u \in UserIds : ~(users[u].is_admin /\ users[u].is_blocked)

---------------------------------------------------------------------------
(* C7 *)

\* C7: a login for a blocked user establishes no session, also with the right
\* email and password; a login establishes a session only for an existing,
\* not blocked user whose password check succeeds.
C7_Step ==
    LET r == resp'
    IN (r.op = "login" /\ r.actor = 0) =>
          /\ (r.target \in UserIds /\ users[r.target].is_blocked)
                => (sessions' = sessions /\ r.status # 302)
          /\ (sessions' # sessions \/ r.status = 302)
             => \E f \in LoginForms :
                   /\ login(0, "POST", f.email, f.password)
                   /\ f.email # None /\ f.password # None
                   /\ LET u == UserByEmail(Lower(f.email))
                      IN /\ u \in UserIds
                         /\ ~users[u].is_blocked
                         /\ check_password(u, f.password)
                         /\ sessions' = sessions \cup { u }

\* C7 holds of every step
C7_BlockedCannotLogin == [][C7_Step]_vars

\* a blocked user has tried to log in with the right email and password
C7_Witness ==
    /\ resp.op = "login"
    /\ resp.target \in UserIds
    /\ users[resp.target].is_blocked
    /\ resp.msgs = << "Your account is blocked" >>
    /\ resp.target \notin sessions

---------------------------------------------------------------------------
(* C8 *)

AdminOps ==
    { "api_list_users", "api_get_user", "api_search_users", "api_create_user",
      "api_block_user", "admin_toggle_block", "admin_users", "admin_vms" }

\* C8: an administrative operation invoked by an authenticated actor who is
\* not an admin gets forbidden, returns no user or VM data and changes no row.
C8_Step ==
    LET r == resp'
    IN (r.op \in AdminOps /\ r.actor \in UserIds /\ ~is_admin(r.actor))
       => (IsForbidden(r) /\ r.body = <<>>
              /\ users' = users /\ vms' = vms /\ user_vm' = user_vm)

\* C8 holds of every step
C8_AdminOnly == [][C8_Step]_vars

\* a user who is not an admin has asked for the admin VM listing while VMs exist
C8_Witness ==
    /\ resp.op = "admin_vms"
    /\ resp.actor \in UserIds
    /\ ~is_admin(resp.actor)
    /\ vms # <<>>
    /\ IsForbidden(resp)

---------------------------------------------------------------------------
(* C9 *)

\* C9: a create request with ram_gb outside [0,32] or cpu outside [1,16] ends
\* in a validation error and adds no VM and no ownership link; every stored
\* VM has 0 <= ram_gb <= 32 and 1 <= cpu <= 16.
C9_Step ==
    /\ \A a \in sessions, f \in VmForms :
          (/\ f.ram_gb.isint /\ f.cpu.isint
           /\ ~RamInRange(f.ram_gb.val) \/ ~CpuInRange(f.cpu.val)
           /\ \/ vm_create(a, "POST", f.name, f.ram_gb, f.cpu)
              \/ \E o \in 0..(Len(users) + 1) :
                    api_create_vm(a, f.name, f.ram_gb, f.cpu, o))
          => (IsValidation(resp') /\ vms' = vms /\ user_vm' = user_vm)
    /\ \A v \in DOMAIN vms' : RamInRange(vms'[v].ram_gb) /\ CpuInRange(vms'[v].cpu)

\* C9 holds of every step
C9_CreateValidatesRanges == [][C9_Step]_vars

\* every stored VM has its ram_gb and cpu in range
VmRangesInv ==
    \A v \in VmIds : RamInRange(vms[v].ram_gb) /\ CpuInRange(vms[v].cpu)

---------------------------------------------------------------------------
(* C10 *)

\* C10: every stored VM has a name that is not empty after trimming.
C10_NamesNonEmpty ==
    \A v \in VmIds : Strip(vms[v].name) # <<>>

---------------------------------------------------------------------------
(* C11 *)

\* the VMs GET /vms is to return to actor a
ListExpected(a, include_deleted, all_flag) ==
    IF is_admin(a) /\ all_flag
    THEN VmIds
    ELSE { v \in VmIds : Owns(a, v) /\ (include_deleted \/ ~vms[v].is_deleted) }

\* C11: GET /vms returns, to a non-admin actor and to an admin without the
\* all flag, exactly the actor's own VMs that are not deleted, or all of the
\* actor's own VMs when include_deleted is set, and never a VM of another
\* user; to an admin with all set, every VM, deleted or not; the all flag
\* changes nothing for a non-admin actor.
C11_Step ==
    LET r == resp'
    IN r.op = "api_list_vms" =>
          \A a \in sessions, i \in BoolInputs, l \in BoolInputs :
             api_list_vms(a, i, l) =>
                /\ r.status = 200
                /\ r.body = VmDicts(ListExpected(a, parse_bool(i), parse_bool(l)))
                /\ ~(is_admin(a) /\ parse_bool(l))
                      => \A j \in 1..Len(r.body) : Owns(a, r.body[j].id)
                /\ ~is_admin(a)
                      => r.body = VmDicts(ListExpected(a, parse_bool(i), FALSE))
                /\ vms' = vms /\ user_vm' = user_vm

\* C11 holds of every step
C11_ListingScope == [][C11_Step]_vars

\* a non-admin actor who owns a deleted and a not deleted VM, while other
\* users own VMs too, has been sent a listing that holds the deleted one
C11_Witness ==
    /\ resp.op = "api_list_vms"
    /\ ~is_admin(resp.actor)
    /\ \E j \in 1..Len(resp.body) : resp.body[j].is_deleted
    /\ \E j \in 1..Len(resp.body) : ~resp.body[j].is_deleted
    /\ \E v \in VmIds : ~Owns(resp.actor, v)

---------------------------------------------------------------------------
(* C12 *)

\* the VMs a step has soft-deleted
NewlyDeleted == { v \in VmIds : ~vms[v].is_deleted /\ vms'[v].is_deleted }

\* C12: POST /vms/delete with a list of ids sets is_deleted on exactly the
\* listed VMs the caller owns, leaves every other VM unchanged, and reports a
\* count equal to the number of VMs whose is_deleted went from false to
\* true, also when a listed VM was deleted before or an id is repeated.
C12_Step ==
    LET r == resp'
    IN r.op = "vms_delete" =>
          \A a \in sessions, ids \in IdListInputs :
             (vms_delete(a, ids) /\ \A i \in 1..Len(ids) : ids[i].isint) =>
                /\ \A v \in VmIds :
                      vms'[v] = IF v \in IdSet(ids) /\ Owns(a, v)
                                THEN [vms[v] EXCEPT !.is_deleted = TRUE]
                                ELSE vms[v]
                /\ user_vm' = user_vm
                /\ r.count = Cardinality(NewlyDeleted)

\* C12 holds of every step
C12_BulkDeleteCount == [][C12_Step]_vars

---------------------------------------------------------------------------
(* C13 *)

\* the self-service profile handlers
SelfServiceOps == { "api_update_me", "profile" }

\* C13: a self-service profile update (PATCH /me, POST /profile) by an actor
\* with is_admin set changes neither the email nor the full_name of that
\* admin; at most the password changes.
C13_Step ==
    LET r == resp'
    IN (r.op \in SelfServiceOps /\ r.actor \in UserIds /\ is_admin(r.actor))
       => /\ users'[r.actor].email = users[r.actor].email
          /\ users'[r.actor].full_name = users[r.actor].full_name
          /\ users' = [users EXCEPT ![r.actor].password_hash = users'[r.actor].password_hash]

\* C13 holds of every step
C13_AdminProfileFrozen == [][C13_Step]_vars

---------------------------------------------------------------------------
(* C14 *)

\* the handlers that collect validation errors after attribute writes
ValidatedOps == { "api_update_vm", "api_update_me" }

TablesUnchanged == users' = users /\ vms' = vms /\ user_vm' = user_vm

\* C14: a request that ends in a validation failure leaves the tables as
\* they were: a PATCH /vms/{id} with a valid and an invalid field changes no
\* field of the VM, a non-admin PATCH /me with a valid full_name and a
\* duplicate or empty email changes neither, an admin PATCH /me with
\* mismatched passwords keeps the password.
C14_Step ==
    /\ \A s \in Slots :
          (inflight[s].op \in ValidatedOps /\ inflight[s].errors # <<>>
              /\ inflight'[s].op = "idle")
          => (resp'.status = 400 /\ resp'.msgs = inflight[s].errors /\ TablesUnchanged)
    /\ \A s \in Slots :
          (inflight[s].op = "idle" /\ inflight'[s].op \in ValidatedOps) => TablesUnchanged
    /\ (resp' # resp /\ resp'.op \in ValidatedOps /\ IsValidation(resp')) => TablesUnchanged

\* C14 holds of every step
C14_FailedValidationKeepsState == [][C14_Step]_vars

\* a PATCH with the valid name 'b' and ram_gb = 33 has been answered 400 with
\* the RAM error alone, and the VM does not have the name 'b'
C14_Witness ==
    /\ resp.op = "api_update_vm"
    /\ resp.status = 400
    /\ resp.msgs = << "RAM from 0 to 32" >>
    /\ resp.target \in VmIds
    /\ vms[resp.target].name # << "b" >>

---------------------------------------------------------------------------
(* C16 *)

\* C16: in every committed state, the states between the commits of one
\* request included, every VM row has at least one owner.
C16_EveryVmOwned ==
    \A v \in VmIds : \E u \in UserIds : Owns(u, v)

\* a bulk soft-delete marks all of its target VMs in one step, or none
C16_BulkStep ==
    \A s \in Slots :
       (inflight[s].op = "vms_delete" /\ inflight'[s].op = "idle")
       => \/ \A v \in inflight[s].ids : vms'[v].is_deleted
          \/ vms' = vms

\* the bulk soft-delete is all-or-nothing in every step
C16_BulkAllOrNothing == [][C16_BulkStep]_vars

---------------------------------------------------------------------------
(* C17 *)

\* C17: whatever the interleaving of an update and a soft-delete of the same
\* VM, no step changes name, ram_gb or cpu of a VM whose is_deleted is true.
C17_Step ==
    \A v \in VmIds :
       vms[v].is_deleted
       => /\ vms'[v].name = vms[v].name
          /\ vms'[v].ram_gb = vms[v].ram_gb
          /\ vms'[v].cpu = vms[v].cpu

\* C17 holds of every step
C17_DeletedImmutableUnderRace == [][C17_Step]_vars

---------------------------------------------------------------------------
(* C15 *)

LowerLetters ==
    { "a", "b", "c", "d", "e", "f", "g", "h", "i", "j", "k", "l", "m",
      "n", "o", "p", "q", "r", "s", "t", "u", "v", "w", "x", "y", "z" }

UpperLetters ==
    { "A", "B", "C", "D", "E", "F", "G", "H", "I", "J", "K", "L", "M",
      "N", "O", "P", "Q", "R", "S", "T", "U", "V", "W", "X", "Y", "Z" }

Digits == { "0", "1", "2", "3", "4", "5", "6", "7", "8", "9" }

Letters == LowerLetters \cup UpperLetters

\* every character of s[from..to] is in class, and the range is not empty
AllIn(s, from, to, class) == from <= to /\ \A k \in from..to : s[k] \in class

\* EMAIL_RE.fullmatch: ^[A-Za-z0-9._%+-]+@[A-Za-z0-9.-]+\.[A-Za-z]{2,}$
EMAIL_RE(s) ==
    \E i \in 1..Len(s), j \in 1..Len(s) :
       /\ s[i] = "@"
       /\ s[j] = "."
       /\ AllIn(s, 1, i - 1, Letters \cup Digits \cup { ".", "_", "%", "+", "-" })
       /\ AllIn(s, i + 1, j - 1, Letters \cup Digits \cup { ".", "-" })
       /\ j + 2 <= Len(s)
       /\ AllIn(s, j + 1, Len(s), Letters)

\* validators.py: validate_email(value) returns no error
validate_email(value) == EMAIL_RE(Lower(Strip(OrEmpty(value))))

\* C15: a non-admin actor's self-service email change (PATCH /me, POST
\* /profile) is applied only when the new email, in lower case, is accepted
\* by the email validator and is not the email of another user.
C15_Step ==
    LET r == resp'
    IN (r.op \in SelfServiceOps /\ r.actor \in UserIds /\ ~is_admin(r.actor)
           /\ users'[r.actor].email # users[r.actor].email)
       => /\ users'[r.actor].email = Lower(users'[r.actor].email)
          /\ validate_email(users'[r.actor].email)
          /\ \A u \in UserIds : u # r.actor => users'[u].email # users'[r.actor].email

\* C15 holds of every step
C15_EmailChangeValidated == [][C15_Step]_vars

\* the stored emails are in lower case and pairwise distinct
EmailsLowerDistinct ==
    \A u \in UserIds :
       /\ users[u].email = Lower(users[u].email)
       /\ \A w \in UserIds : w # u => users[w].email # users[u].email

---------------------------------------------------------------------------
(* C18 *)

\* the step is an HTTP request, not the ensure-admin command
IsHttp(r) == r.op \notin { "ensure_admin", "none" }

\* C18: no HTTP request of an anonymous or non-admin actor sets is_admin on a
\* user or creates a user with is_admin set; no HTTP request of any actor
\* changes is_admin of an existing user; a user created by registration has
\* is_admin = false and is_blocked = false.
C18_Step ==
    LET r == resp'
    IN IsHttp(r) =>
          /\ (r.actor = 0 \/ ~is_admin(r.actor))
                => \A u \in DOMAIN users' :
                      users'[u].is_admin => (u \in UserIds /\ users[u].is_admin)
          /\ \A u \in UserIds : users'[u].is_admin = users[u].is_admin
          /\ (r.op = "register" /\ Len(users') > Len(users))
                => /\ ~users'[Len(users')].is_admin
                   /\ ~users'[Len(users')].is_blocked

\* C18 holds of every step
C18_NoEscalation == [][C18_Step]_vars

\* a non-admin actor has asked POST /users to create a user and was refused,
\* and a user made by registration is in the table
C18_Witness ==
    /\ resp.op = "api_create_user"
    /\ resp.actor \in UserIds
    /\ ~is_admin(resp.actor)
    /\ IsForbidden(resp)
    /\ \E u \in UserIds : ~users[u].is_admin

====
